---- MODULE Spec2Model ----
(***************************************************************************)
(* Model of the endpoint-dispatch and caching layer of caccl-api:          *)
(*   - EndpointCategory (constructor, _preProcessParams, uncache function) *)
(*   - wrapVisitEndpoint (cache pre-check, token, cache write, uncache)    *)
(*   - endpoint functions (Rubric.get, App.list, App.add, Other.endpoint,  *)
(*     GraphQL.listSubmissions, GroupSet.list/delete/createGroup,          *)
(*     App.getMetadata/updateMetadata) and the callbacks they chain        *)
(*   - the endpoint binder, the request executor, the transport and the    *)
(*     cache store, whose code is not part of the sources at hand.         *)
(*                                                                         *)
(* Paths are sequences of characters, so that endsWith, split and          *)
(* startsWith are computed as the JavaScript code computes them.           *)
(***************************************************************************)
EXTENDS Integers, Sequences, FiniteSets, TLC

VARIABLES
  cfg,      \* the effective config the operations of the tree were bound with
  cache,    \* contents of the shared cache
  calls,    \* the invocations issued so far
  last,     \* the cache before and after the call that completed last
  exec,     \* one run of the request executor
  configs,  \* the config objects callers have created
  nodes,    \* the category nodes and endpoints constructed so far
  builds    \* the constructor calls made so far

vars == <<cfg, cache, calls, last, exec, configs, nodes, builds>>

callVars == <<cfg, cache, calls, last>>
execVars == <<exec>>
buildVars == <<configs, nodes, builds>>

(***************************************************************************)
(* Bounds                                                                  *)
(***************************************************************************)
MaxCalls == 2
MaxPayload == 1
MaxPages == 3
MaxItem == 2
MaxConfigs == 1
MaxBuilds == 2

CallIds == 1..MaxCalls

\* Payloads the transport can deliver; 0 stands for a falsy payload
\* (0, '', null, false), every other number for a truthy one.
Payloads == 0..MaxPayload

(***************************************************************************)
(* Paths and the string functions the code applies to them                 *)
(***************************************************************************)
\* Paths that requests are sent to (the cache keys that can be written)
ReqPaths == {<<"a">>, <<"a", "b">>}

\* Entries of an invalidation set: literal paths and prefix patterns
Patterns == {<<"a", "b", "*">>, <<"*">>, <<"a">>, <<"a", "*", "b", "*">>}

\* The invalidation sets that mutating calls hand over
UncacheSets == {{p} : p \in Patterns}

\* String.prototype.endsWith('*')
EndsWithStar(path) == Len(path) > 0 /\ path[Len(path)] = "*"

\* Index of the first '*' of a path, Len(path) + 1 when it has none
RECURSIVE FirstStar(_, _)
FirstStar(path, i) ==
  IF i > Len(path) THEN i
  ELSE IF path[i] = "*" THEN i ELSE FirstStar(path, i + 1)

\* path.split('*')[0]: the text in front of the FIRST '*'
SplitStar0(path) == SubSeq(path, 1, FirstStar(path, 1) - 1)

\* String.prototype.startsWith
StartsWith(s, prefix) ==
  Len(prefix) <= Len(s) /\ SubSeq(s, 1, Len(prefix)) = prefix

(***************************************************************************)
(* The cache store (MemoryCache / SessionCache / a custom cache)           *)
(***************************************************************************)
Absent == [has |-> FALSE, promise |-> FALSE, v |-> 0, by |-> ""]

\* An entry: the value (or the promise of it) that was stored; by records
\* the method of the request that stored it and is not read by the code
Entry(isPromise, value, method) ==
  [has |-> TRUE, promise |-> isPromise, v |-> value, by |-> method]

\* A store is a function over the keys its users can name
EmptyCache == [k \in ReqPaths |-> Absent]

\* cache.get(path): the stored entry, undefined when there is none
CacheGet(store, path) ==
  IF path \in DOMAIN store THEN store[path] ELSE Absent

\* cache.set(path, value)
CacheSet(store, path, entry) == [store EXCEPT ![path] = entry]

\* cache.clear(key) / deletePaths(keys): removes the keys named literally
DeletePaths(store, keys) ==
  [k \in DOMAIN store |-> IF k \in keys THEN Absent ELSE store[k]]

\* cache.getAllPaths(): the keys the store holds
GetAllPaths(store) == {k \in DOMAIN store : store[k].has}

\* JavaScript truthiness of what cache.get returned: undefined and falsy
\* payloads are falsy, a stored promise is an object and thus truthy
Truthy(entry) == entry.has /\ (entry.promise \/ entry.v # 0)

(***************************************************************************)
(* Values handed to callers                                                *)
(***************************************************************************)
NoRet == [k |-> "none", v |-> 0, err |-> ""]
Undefined == [k |-> "undefined", v |-> 0, err |-> ""]
Resolved(value) == [k |-> "resolved", v |-> value, err |-> ""]
Rejected(code) == [k |-> "rejected", v |-> 0, err |-> code]

\* What config.visitEndpoint resolves to: a plain payload or the envelope
\* {response, uncache: [...]}
Plain(value) == [env |-> FALSE, response |-> value, uncache |-> {}]
Envelope(value, paths) == [env |-> TRUE, response |-> value, uncache |-> paths]

\* The invalidation sets that come inside an envelope
EnvelopeSets == {{<<"a", "b", "*">>}, {<<"a">>}}

EndpointResults ==
  {Plain(p) : p \in Payloads}
    \cup {Envelope(p, s) : p \in Payloads, s \in EnvelopeSets}

\* uncacheExcluded of wrapVisitEndpoint: no envelope was returned
\* (!endpointResults || !endpointResults.uncache || !Array.isArray(...))
UncacheExcluded(endpointResults) == ~endpointResults.env

(***************************************************************************)
(* Endpoint descriptors: the static members of the category classes        *)
(***************************************************************************)
ParamNames == {"courseId", "rubricId", "path", "assignmentId"}

OtherEndpointUncache_Literal == {<<"a">>}

\* The paths Other.endpoint hands to this.uncache
OtherEndpointUncache == {<<"*">>}

\* method is "" where the caller chooses it (options.method || 'GET');
\* after tells what the endpoint function chains to this.visitEndpoint(...)
\* with .then: nothing, a call of this.uncache with the paths in uncache,
\* or the extraction of a part of the response
Operations ==
  { [name |-> "rubric.get", requiredParams |-> {"courseId", "rubricId"},
     method |-> "GET", after |-> "", uncache |-> {}],
    [name |-> "app.list", requiredParams |-> {}, method |-> "GET",
     after |-> "", uncache |-> {}],
    [name |-> "app.add", requiredParams |-> {}, method |-> "POST",
     after |-> "", uncache |-> {}],
    [name |-> "other.endpoint", requiredParams |-> {"path"}, method |-> "",
     after |-> "uncache", uncache |-> OtherEndpointUncache],
    [name |-> "ql.listSubmissions",
     requiredParams |-> {"courseId", "assignmentId"}, method |-> "POST",
     after |-> "extract", uncache |-> {}] }

\* Responses to a GraphQL query: the odd payloads stand for objects that
\* lack data.assignment.submissionsConnection, the even ones (0 apart) for
\* objects that have it
Malformed(response) == response % 2 = 1

\* response.data.assignment.submissionsConnection.nodes
SubmissionNodes(response) == response \div 2

\* Error code of the CACCLError thrown by GraphQL.listSubmissions
InvalidSubmissionStructure == "invalidSubmissionStructure"

\* The .then callback of GraphQL.listSubmissions
ExtractSubmissions(response) ==
  IF Malformed(response)
    THEN [raised |-> InvalidSubmissionStructure,
          result |-> Rejected(InvalidSubmissionStructure)]
    ELSE [raised |-> "", result |-> Resolved(SubmissionNodes(response))]

\* What the transport answers a request to a resource with: the resource
\* as it is after the given number of mutations (never a falsy payload)
Snapshot(version) == version + 1

\* The metadata an app list carries: the custom field metadata of the
\* first app with the metadataId, parsed
MetadataOf(apps) == apps - 1

\* Error code of the CACCLError thrown by App.getMetadata
NoAppWithMetadataFound == "noAppWithMetadataFound"

\* The .then callback of App.getMetadata; a falsy payload stands for a
\* list without an app that has the metadataId
GetMetadata(apps) ==
  IF apps = 0
    THEN [raised |-> NoAppWithMetadataFound,
          result |-> Rejected(NoAppWithMetadataFound)]
    ELSE [raised |-> "", result |-> Resolved(MetadataOf(apps))]

\* The callback an endpoint function chains to the cached value
Chained(after, value) ==
  IF after = "extract" THEN ExtractSubmissions(value)
  ELSE IF after = "metadata" THEN GetMetadata(value)
  ELSE [raised |-> "", result |-> Resolved(value)]

Deliver_Swallowed(outcome) ==
  IF outcome.k = "rejected" THEN Undefined ELSE outcome

\* The binder hands the caller what the endpoint function returned or threw
Deliver(outcome) == outcome

\* The endpoint functions that return what this.visitEndpoint(...) returns
PlainOperations == {op \in Operations : op.after = ""}

\* options.method || 'GET' of Other.endpoint; the other endpoint functions
\* fix the method
Methods == {"", "POST"}

MethodOf(op, method) ==
  IF op.method # "" THEN op.method
  ELSE IF method = "" THEN "GET" ELSE method

InstantiateRequiredParams_Dropped(op) == {}

\* The requiredParams the constructor hands to instantiateEndpoint
InstantiateRequiredParams(op) == op.requiredParams

\* The binder's validation: the required fields the caller left out
MissingParams(op, supplied) == InstantiateRequiredParams(op) \ supplied

(***************************************************************************)
(* EndpointCategory: config objects, _preProcessParams and the constructor *)
(***************************************************************************)
\* Values of the fields api, cache and uncache of a config object: unset,
\* supplied by the caller, or (a positive number) created by the category
\* node with that number
None == 0
Supplied == -1

ConfigIds == 1..MaxConfigs

NoConfig ==
  [made |-> FALSE, api |-> None, cache |-> None, cacheType |-> "",
   req |-> FALSE, uncache |-> None, uncacheDeletes |-> FALSE]

\* The config objects a caller may pass to a constructor
CallerConfigs ==
  { [made |-> TRUE, api |-> a, cache |-> c, cacheType |-> t, req |-> r,
     uncache |-> u, uncacheDeletes |-> FALSE] :
      a \in {None, Supplied}, c \in {None, Supplied},
      t \in {"", "memory", "session", "redis"}, r \in BOOLEAN,
      u \in {None, Supplied} }

\* A static member that is a subclass of EndpointCategory
Category(name, cls) ==
  [name |-> name, category |-> TRUE, cls |-> cls, action |-> "",
   requiredParams |-> {}]

\* A static member that is an endpoint function, with its action and
\* requiredParams properties ("" and {} where the function has none)
Endpoint(name, action, requiredParams) ==
  [name |-> name, category |-> FALSE, cls |-> "", action |-> action,
   requiredParams |-> requiredParams]

\* The static members of the descriptor classes, in definition order.  Of
\* API the categories account and user, which lead to classes that are not
\* among the sources (Account, Self), are left out; of Course, App,
\* GroupSet, Rubric and GraphQL the members listed are those the
\* operations of this model belong to.
Members(cls) ==
  CASE cls = "API" ->
         << Category("course", "Course"), Category("other", "Other"),
            Category("ql", "GraphQL") >>
    [] cls = "Course" ->
         << Category("app", "App"), Category("groupset", "GroupSet"),
            Category("rubric", "Rubric"),
            Endpoint("getUser", "get info on a user in a course", {}) >>
    [] cls = "App" ->
         << Endpoint("list",
                     "get the list of apps installed into a course", {}),
            Endpoint("add", "add an LTI app to a course", {}),
            Endpoint("getMetadata",
                     "get metadata for an LTI app in a course", {}),
            Endpoint("updateMetadata",
                     "get metadata for an LTI app in a course", {}) >>
    [] cls = "GroupSet" ->
         << Endpoint("list", "get the list of group sets in a course",
                     {"courseId"}),
            Endpoint("delete", "delete a specific group set from a course",
                     {"courseId", "groupSetId"}),
            Endpoint("createGroup", "create a new group in a group set",
                     {"courseId", "groupSetId"}) >>
    [] cls = "Rubric" ->
         << Endpoint("get", "get info on a specific rubric in a course",
                     {"courseId", "rubricId"}) >>
    [] cls = "Other" ->
         << Endpoint("endpoint", "call an endpoint", {"path"}) >>
    [] cls = "GraphQL" ->
         << Endpoint("listSubmissions",
                     "send a GraphQL-based submission list request to Canvas",
                     {"courseId", "assignmentId"}) >>

Classes == {"API", "Course", "App", "GroupSet", "Rubric", "Other", "GraphQL"}

CacheChoice_DefaultMemory(config) ==
  IF config.cache # None THEN "keep"
  ELSE IF config.cacheType \in {"memory", ""} THEN "memory"
  ELSE IF config.cacheType = "session" /\ config.req THEN "session"
  ELSE "throw"

CacheChoice_SessionUnchecked(config) ==
  IF config.cache # None THEN "keep"
  ELSE IF config.cacheType = "memory" THEN "memory"
  ELSE IF config.cacheType = "session" THEN
         (IF config.req THEN "session" ELSE "off")
  ELSE IF config.cacheType # "" THEN "throw"
  ELSE "off"

\* "Initialize the cache" of _preProcessParams: what becomes of config.cache
CacheChoice(config) ==
  IF config.cache # None THEN "keep"
  ELSE IF config.cacheType = "memory" THEN "memory"
  ELSE IF config.cacheType = "session" /\ config.req THEN "session"
  ELSE IF config.cacheType # "" THEN "throw"
  ELSE "off"

\* _preProcessParams(oldConfig), run by the node numbered self: the config
\* object is changed in place; thrown tells whether invalid_cache was thrown
PreProcessParams(oldConfig, self) ==
  LET choice == CacheChoice(oldConfig)
      c1 == IF oldConfig.api = None
              THEN [oldConfig EXCEPT !.api = self] ELSE oldConfig
      c2 == IF choice \in {"memory", "session"}
              THEN [c1 EXCEPT !.cache = self] ELSE c1
      c3 == IF c2.uncache = None
              THEN [c2 EXCEPT !.uncache = self,
                              !.uncacheDeletes = (c2.cache # None)]
              ELSE c2
  IN  IF choice = "throw"
        THEN [thrown |-> TRUE, config |-> c1]
        ELSE [thrown |-> FALSE, config |-> c3]

InstantiateEndpoint_ApiThis(config, self) ==
  [cache |-> config.cache, uncache |-> config.uncache, api |-> self]

\* What the constructor binds an endpoint function with
InstantiateEndpoint(config, self) ==
  [cache |-> config.cache, uncache |-> config.uncache, api |-> config.api]

\* The config object the constructor passes to a sub-category
ChildConfig(cid) == cid

IsSubCategory_Never(member) == FALSE

\* Subclass[prop].prototype instanceof EndpointCategory
IsSubCategory(member) == member.category

\* The action the constructor hands to instantiateEndpoint
\* (endpointCoreFunction.action || `perform an unnamed ${prop} task`)
ActionLabel(member) ==
  IF member.action # "" THEN member.action
  ELSE "perform an unnamed " \o member.name \o " task"

\* A category node (member is the static member it was made for, a
\* Category of no class for the root) or a bound endpoint
NodeRecord(tree, cls, member, parent, isLeaf, bound) ==
  [tree |-> tree, cls |-> cls, name |-> member.name, parent |-> parent,
   leaf |-> isLeaf, cache |-> bound.cache, uncache |-> bound.uncache,
   api |-> bound.api,
   action |-> IF isLeaf THEN ActionLabel(member) ELSE "",
   requiredParams |->
     IF isLeaf THEN InstantiateRequiredParams(member) ELSE {}]

\* new Subclass(config): the constructor of a category and, through
\* BuildMembers, of everything below it.  st holds the config objects, the
\* nodes made so far and whether an error has been thrown.
RECURSIVE BuildCategory(_, _, _, _, _, _)
RECURSIVE BuildMembers(_, _, _, _, _, _)

BuildCategory(tree, cls, name, parent, cid, st) ==
  LET self == Len(st.nodes) + 1
      pp == PreProcessParams(st.configs[cid], self)
      st1 == [configs |-> [st.configs EXCEPT ![cid] = pp.config],
              nodes |-> Append(st.nodes,
                          NodeRecord(tree, cls, Category(name, cls), parent,
                                     FALSE, pp.config)),
              thrown |-> pp.thrown]
  IN  IF pp.thrown THEN st1
      ELSE BuildMembers(tree, cls, 1, self, cid, st1)

BuildMembers(tree, cls, i, self, cid, st) ==
  IF st.thrown \/ i > Len(Members(cls)) THEN st
  ELSE LET m == Members(cls)[i]
           next ==
             IF IsSubCategory(m)
               THEN BuildCategory(tree, m.cls, m.name, self,
                                  ChildConfig(cid), st)
               ELSE [st EXCEPT !.nodes =
                       Append(@, NodeRecord(tree, cls, m, self, TRUE,
                                InstantiateEndpoint(st.configs[cid], self)))]
       IN  BuildMembers(tree, cls, i + 1, self, cid, next)

\* Error code of the CACCLError thrown by _preProcessParams
InvalidCache == "invalid_cache"

BuildRecord(cid, cls, before, root, thrown) ==
  [cid |-> cid, cls |-> cls, root |-> root,
   hadApi |-> before.api # None, suppliedApi |-> before.api = Supplied,
   hadCache |-> before.cache # None,
   cacheType |-> before.cacheType, req |-> before.req,
   thrown |-> thrown, code |-> IF thrown THEN InvalidCache ELSE ""]

\* Nothing has been constructed
BuildAtRest ==
  /\ configs = [i \in ConfigIds |-> NoConfig]
  /\ nodes = <<>>
  /\ builds = <<>>

\* A caller creates a config object
NewConfig(cid, config) ==
  /\ ~configs[cid].made
  /\ configs' = [configs EXCEPT ![cid] = config]
  /\ UNCHANGED <<nodes, builds, callVars, execVars>>

\* A caller runs new Cls(config)
Construct(cid, cls) ==
  /\ configs[cid].made
  /\ Len(builds) < MaxBuilds
  /\ LET st == BuildCategory(Len(builds) + 1, cls, "", None, cid,
                 [configs |-> configs, nodes |-> nodes, thrown |-> FALSE])
     IN  /\ configs' = st.configs
         /\ nodes' = st.nodes
         /\ builds' = Append(builds,
              BuildRecord(cid, cls, configs[cid], Len(nodes) + 1, st.thrown))
  /\ UNCHANGED <<callVars, execVars>>

(***************************************************************************)
(* The request executor (the visitEndpoint function that the defaults of   *)
(* the constructor configure): dispatch with retry, pagination follow      *)
(***************************************************************************)
Unset == -1

\* config.numRetries and config.itemsPerPage when they are excluded
DefaultNumRetries == 3
DefaultItemsPerPage == 100

Defaults_Swapped(numRetries, itemsPerPage) ==
  [numRetries |-> itemsPerPage, itemsPerPage |-> numRetries]

\* The defaults the constructor hands to instantiateEndpoint
Defaults(numRetries, itemsPerPage) ==
  [numRetries |-> numRetries, itemsPerPage |-> itemsPerPage]

\* Resolution of one setting: per-call option, then the category's default,
\* then the global default
Resolve(option, categoryDefault, globalDefault) ==
  IF option # Unset THEN option
  ELSE IF categoryDefault # Unset THEN categoryDefault
  ELSE globalDefault

\* The request sent for a page
PageRequest(page, perPage) == [page |-> page, perPage |-> perPage]

\* A retry sends the request again
RetryRequest(request) == request

ConcatPages_Prepend(acc, items) == items \o acc

\* Page payloads are concatenated in arrival order
ConcatPages(acc, items) == acc \o items

\* The payloads a page can carry
PageChoices == {<<>>} \cup {<<i>> : i \in 1..MaxItem}

ExecIdle ==
  [status |-> "idle", optRetries |-> Unset, cfgRetries |-> Unset,
   numRetries |-> 0, request |-> PageRequest(0, 0), sent |-> 0,
   sentPage |-> 0, fails |-> 0, anyFail |-> FALSE, fatal |-> FALSE,
   same |-> TRUE, served |-> <<>>, result |-> <<>>, err |-> ""]

ExecAtRest == exec = ExecIdle

\* An operation reaches the executor: settings are resolved and the first
\* request goes to the transport
ExecStart(optRetries, cfgRetries, cfgItems) ==
  /\ exec.status = "idle"
  /\ LET defaults == Defaults(cfgRetries, cfgItems)
         n == Resolve(optRetries, defaults.numRetries, DefaultNumRetries)
         perPage == Resolve(Unset, defaults.itemsPerPage,
                            DefaultItemsPerPage)
     IN  exec' = [ExecIdle EXCEPT !.status = "running",
                                  !.optRetries = optRetries,
                                  !.cfgRetries = cfgRetries,
                                  !.numRetries = n,
                                  !.request = PageRequest(1, perPage),
                                  !.sent = 1, !.sentPage = 1]
  /\ UNCHANGED <<callVars, buildVars>>

\* The transport fails transiently: retry while retries are left
TransientFailure ==
  /\ exec.status = "running"
  /\ IF exec.fails < exec.numRetries
       THEN exec' = [exec EXCEPT
              !.fails = @ + 1, !.anyFail = TRUE,
              !.request = RetryRequest(exec.request),
              !.same = (exec.same /\ RetryRequest(exec.request) = exec.request),
              !.sent = @ + 1, !.sentPage = @ + 1]
       ELSE exec' = [exec EXCEPT
              !.fails = @ + 1, !.anyFail = TRUE,
              !.status = "failed", !.err = "RequestFailed"]
  /\ UNCHANGED <<callVars, buildVars>>

\* The transport fails with an error that is not retryable
FatalFailure ==
  /\ exec.status = "running"
  /\ exec' = [exec EXCEPT !.status = "failed", !.fatal = TRUE,
                          !.err = "RequestFailed"]
  /\ UNCHANGED <<callVars, buildVars>>

\* The transport delivers a page; more tells whether it signals a
\* continuation
PageArrives(items, more) ==
  /\ exec.status = "running"
  /\ more => Len(exec.served) + 1 < MaxPages
  /\ LET result == ConcatPages(exec.result, items)
         served == Append(exec.served, items)
     IN  IF more
           THEN exec' = [exec EXCEPT
                  !.served = served, !.result = result,
                  !.request = PageRequest(exec.request.page + 1,
                                          exec.request.perPage),
                  !.fails = 0, !.sent = @ + 1, !.sentPage = 1]
           ELSE exec' = [exec EXCEPT
                  !.served = served, !.result = result, !.status = "done"]
  /\ UNCHANGED <<callVars, buildVars>>

(***************************************************************************)
(* Calls: one record per invocation, kept after the call has completed     *)
(***************************************************************************)
\* The options an operation was invoked with, where the paths of the
\* operation are built from them
NoArgs == [courseId |-> "", groupSetId |-> ""]

ArgsOf(op) == IF "args" \in DOMAIN op THEN op.args ELSE NoArgs

IdleCall ==
  [kind |-> "idle", pc |-> "idle", omitted |-> {}, path |-> <<>>,
   method |-> "", env |-> FALSE, paths |-> {}, resp |-> 0, lst |-> {},
   ret |-> NoRet, inner |-> NoRet, nsent |-> 0, pre |-> EmptyCache,
   open |-> {}, hitBy |-> "", paramToken |-> "", sentToken |-> "",
   after |-> "", out |-> NoRet, op |-> "", kept |-> {}, gone |-> {},
   raised |-> "", args |-> NoArgs, served |-> FALSE, seen |-> 0,
   want |-> 0, settled |-> {}]

\* The cache before and after the call that completed last
Completion(c, before, after) == [c |-> c, pre |-> before, post |-> after]

Started == {c \in CallIds : calls[c].kind # "idle"}

NextCall == Cardinality(Started) + 1

Finished(c) == calls[c].pc \in {"done", "failed"}

\* The calls that have been issued and have not completed
InFlight == {c \in Started : ~Finished(c)}

\* The calls whose caller has received a value or an error
Settled == {c \in Started : calls[c].out.k \in {"resolved", "rejected"}}

(***************************************************************************)
(* The uncache function of EndpointCategory._preProcessParams              *)
(***************************************************************************)
PathsToUncache_Unlisted(paths, cachedPaths) ==
  UNION { IF EndsWithStar(path)
            THEN {cp \in ReqPaths : StartsWith(cp, SplitStar0(path))}
            ELSE {path} : path \in paths }

\* pathsToUncache, computed from the invalidation set and the key listing
PathsToUncache(paths, cachedPaths) ==
  UNION { IF EndsWithStar(path)
            THEN {cp \in cachedPaths : StartsWith(cp, SplitStar0(path))}
            ELSE {path} : path \in paths }

\* The config objects the tree under test is constructed from
TreeConfigs ==
  {c \in CallerConfigs :
     /\ c.api = None /\ c.uncache = None /\ ~c.req
     /\ c.cacheType \in {"", "memory"}}

\* Access tokens: config.accessToken and the access_token parameter of a
\* caller, "" where there is none (undefined)
ConfigTokens == {"", "configToken"}
CallerTokens == {"", "callerToken"}

\* Those that bring no cache instance
FreshConfigs == {c \in TreeConfigs : c.cache = None}

\* What wrapVisitEndpoint sees of the config after construction, and what
\* the caller's config said about caching; whether the cache stores
\* promises is a property of the cache object
EffectiveConfig(config, storePromises, accessToken) ==
  LET pp == PreProcessParams(config, 1)
  IN  [built |-> ~pp.thrown,
       hadCache |-> config.cache # None, cacheType |-> config.cacheType,
       cache |-> pp.config.cache # None,
       storePromises |-> (pp.config.cache # None /\ storePromises),
       accessToken |-> accessToken]

\* requestOptions.params.access_token = config.accessToken
AddAccessToken(paramToken, accessToken) == accessToken

ConfigAfterRequest_TokenKept(config, paramToken) ==
  [config EXCEPT !.accessToken = paramToken]

\* The config after wrapVisitEndpoint has prepared a request: it assigns to
\* requestOptions (the caller's options object) and to nothing of config
ConfigAfterRequest(config, paramToken) == config

\* The tree new API(config) constructs, with the config object after it
ConstructedTree(config) ==
  BuildCategory(1, "API", "", None, 1,
    [configs |-> [i \in ConfigIds |-> IF i = 1 THEN config ELSE NoConfig],
     nodes |-> <<>>, thrown |-> FALSE])

\* A tree has been constructed from config
BuiltFrom(config) ==
  LET st == ConstructedTree(config)
  IN  /\ configs = st.configs
      /\ nodes = st.nodes
      /\ builds = <<BuildRecord(1, "API", config, 1, st.thrown)>>

\* No call has been issued
CallsAtRest ==
  /\ cache = EmptyCache
  /\ calls = [c \in CallIds |-> IdleCall]
  /\ last = Completion(0, EmptyCache, EmptyCache)

Init ==
  /\ cfg \in {EffectiveConfig(c, sp, "") : c \in TreeConfigs, sp \in BOOLEAN}
  /\ CallsAtRest
  /\ ExecAtRest
  /\ BuildAtRest

(***************************************************************************)
(* An operation is invoked: the binder validates the required parameters,  *)
(* the endpoint function builds the request and calls visitEndpoint, whose *)
(* synchronous part (wrapVisitEndpoint) checks the cache and dispatches.   *)
(***************************************************************************)
Invoke(c, op, supplied, path, token, method) ==
  /\ calls[c].kind = "idle"
  /\ c = NextCall
  /\ LET missing == MissingParams(op, supplied)
         cachedValue == CacheGet(cache, path)
         base == [IdleCall EXCEPT !.kind = "visit", !.op = op.name,
                                  !.args = ArgsOf(op),
                                  !.settled = Settled,
                                  !.omitted = op.requiredParams \ supplied,
                                  !.paramToken = token,
                                  !.open = InFlight]
         sent == [base EXCEPT !.path = path, !.method = MethodOf(op, method),
                              !.after = op.after]
         chained == Chained(op.after, cachedValue.v)
     IN  IF missing # {}
           THEN \* MissingParameter, the endpoint function never runs
                /\ calls' = [calls EXCEPT ![c] =
                     [base EXCEPT !.pc = "failed",
                                  !.ret = Rejected("MissingParameter"),
                                  !.out = Rejected("MissingParameter")]]
                /\ last' = Completion(c, cache, cache)
           ELSE IF cfg.cache /\ Truthy(cachedValue)
             THEN \* return Promise.resolve(cachedValue)
                  IF op.after = "uncache"
                    THEN \* .then(response => this.uncache([...], response))
                         /\ calls' = [calls EXCEPT ![c] =
                              [sent EXCEPT !.pc = "listing",
                                           !.ret = Resolved(cachedValue.v),
                                           !.hitBy = cachedValue.by,
                                           !.paths = op.uncache,
                                           !.resp = cachedValue.v,
                                           !.pre = cache]]
                         /\ last' = last
                    ELSE /\ calls' = [calls EXCEPT ![c] =
                              [sent EXCEPT
                                 !.pc = "done",
                                 !.ret = Resolved(cachedValue.v),
                                 !.hitBy = cachedValue.by,
                                 !.raised = chained.raised,
                                 !.out = Deliver(chained.result)]]
                         /\ last' = Completion(c, cache, cache)
             ELSE \* config.visitEndpoint(requestOptions) is called and
                  \* the wrapper function ends without a return statement;
                  \* an endpoint function that chains .then to the result
                  \* throws a TypeError
                  /\ calls' = [calls EXCEPT ![c] =
                       [sent EXCEPT !.pc = "waiting", !.nsent = 1,
                                    !.sentToken =
                                      AddAccessToken(token, cfg.accessToken),
                                    !.pre = cache, !.ret = Undefined,
                                    !.raised = IF op.after = ""
                                                 THEN "" ELSE "TypeError",
                                    !.out = IF op.after = ""
                                              THEN Deliver(Undefined)
                                              ELSE Deliver(
                                                     Rejected("TypeError"))]]
                  /\ last' = last
  /\ cfg' = IF /\ MissingParams(op, supplied) = {}
                 /\ ~(cfg.cache /\ Truthy(CacheGet(cache, path)))
               THEN \* lines 16-18 are reached: the request is prepared
                    ConfigAfterRequest(cfg, token)
               ELSE cfg
  /\ UNCHANGED <<cache, execVars, buildVars>>

\* config.visitEndpoint resolved: the .then callback of wrapVisitEndpoint
VisitResolve(c, endpointResults) ==
  /\ calls[c].kind = "visit"
  /\ calls[c].pc = "waiting"
  /\ LET uncacheExcluded == UncacheExcluded(endpointResults)
         response == endpointResults.response
         saved == IF cfg.cache
                    THEN CacheSet(cache, calls[c].path,
                                  Entry(cfg.storePromises, response,
                                        calls[c].method))
                    ELSE cache
         cleared == IF ~uncacheExcluded /\ cfg.cache
                      THEN DeletePaths(saved, endpointResults.uncache)
                      ELSE saved
     IN  /\ cache' = cleared
         /\ calls' = [calls EXCEPT ![c] =
              [@ EXCEPT !.pc = "done", !.env = endpointResults.env,
                        !.paths = endpointResults.uncache,
                        !.resp = response, !.inner = Resolved(response),
                        !.pre = EmptyCache]]
         /\ last' = Completion(c, calls[c].pre, cleared)
  /\ UNCHANGED <<cfg, execVars, buildVars>>

VisitReject_Stored(c) ==
  /\ calls[c].kind = "visit"
  /\ calls[c].pc = "waiting"
  /\ cache' = IF cfg.cache
                THEN CacheSet(cache, calls[c].path,
                              Entry(TRUE, 0, calls[c].method))
                ELSE cache
  /\ calls' = [calls EXCEPT ![c] =
       [@ EXCEPT !.pc = "failed", !.inner = Rejected("RequestFailed"),
                 !.pre = EmptyCache]]
  /\ last' = Completion(c, calls[c].pre, cache')
  /\ UNCHANGED <<cfg, execVars, buildVars>>

\* config.visitEndpoint rejected: the .then callback does not run
VisitReject(c) ==
  /\ calls[c].kind = "visit"
  /\ calls[c].pc = "waiting"
  /\ calls' = [calls EXCEPT ![c] =
       [@ EXCEPT !.pc = "failed", !.inner = Rejected("RequestFailed"),
                 !.pre = EmptyCache]]
  /\ last' = Completion(c, calls[c].pre, cache)
  /\ UNCHANGED <<cfg, cache, execVars, buildVars>>

\* An endpoint calls this.uncache(paths, response)
UncacheStart(c, paths, response) ==
  /\ calls[c].kind = "idle"
  /\ c = NextCall
  /\ LET base == [IdleCall EXCEPT !.kind = "uncache", !.paths = paths,
                                  !.resp = response, !.open = InFlight]
     IN  IF cfg.cache
           THEN \* config.cache.getAllPaths() is called
                /\ calls' = [calls EXCEPT ![c] =
                     [base EXCEPT !.pc = "listing", !.pre = cache]]
                /\ last' = last
           ELSE \* dummy function: Promise.resolve(response)
                /\ calls' = [calls EXCEPT ![c] =
                     [base EXCEPT !.pc = "done", !.ret = Resolved(response),
                                  !.out = Resolved(response)]]
                /\ last' = Completion(c, cache, cache)
  /\ UNCHANGED <<cfg, cache, execVars, buildVars>>

\* getAllPaths resolves with the keys the cache holds
UncacheList(c) ==
  /\ calls[c].pc = "listing"
  /\ calls' = [calls EXCEPT ![c] =
       [@ EXCEPT !.pc = "listed", !.lst = GetAllPaths(cache)]]
  /\ UNCHANGED <<cfg, cache, last, execVars, buildVars>>

\* first .then callback: find the paths to uncache and delete them
UncacheDelete(c) ==
  /\ calls[c].pc = "listed"
  /\ cache' = DeletePaths(cache, PathsToUncache(calls[c].paths, calls[c].lst))
  /\ calls' = [calls EXCEPT ![c] =
       [@ EXCEPT !.pc = "deleted",
                 !.kept = {k \in DOMAIN cache :
                             cache[k].has /\ cache'[k].has},
                 !.gone = {k \in DOMAIN cache :
                             cache[k].has /\ ~cache'[k].has}]]
  /\ UNCHANGED <<cfg, last, execVars, buildVars>>

UncacheResult_DeleteResult(response) == Resolved(0)

\* What the promise chain of the uncache function resolves with: the
\* response, not what deletePaths resolved with
UncacheResult(response) == Resolved(response)

\* second .then callback: resolve with the response
UncacheResolve(c) ==
  /\ calls[c].pc = "deleted"
  /\ calls' = [calls EXCEPT ![c] =
       [@ EXCEPT !.pc = "done",
                 !.ret = IF calls[c].kind = "uncache"
                           THEN UncacheResult(calls[c].resp) ELSE @,
                 !.out = IF calls[c].kind = "uncache"
                           THEN UncacheResult(calls[c].resp)
                           ELSE Deliver(UncacheResult(calls[c].resp)),
                 !.pre = EmptyCache]]
  /\ last' = Completion(c, calls[c].pre, cache)
  /\ UNCHANGED <<cfg, cache, execVars, buildVars>>

Next ==
  \/ \E c \in CallIds, op \in PlainOperations,
        supplied \in SUBSET ParamNames,
        path \in ReqPaths : Invoke(c, op, supplied, path, "", "")
  \/ \E c \in CallIds, er \in EndpointResults : VisitResolve(c, er)
  \/ \E c \in CallIds : VisitReject(c)
  \/ \E c \in CallIds, paths \in UncacheSets,
        response \in Payloads :
        UncacheStart(c, paths, response)
  \/ \E c \in CallIds : UncacheList(c)
  \/ \E c \in CallIds : UncacheDelete(c)
  \/ \E c \in CallIds : UncacheResolve(c)

Spec == Init /\ [][Next]_vars

\* Requests with and without an access token of the caller, against
\* configs with and without an access token
InitToken ==
  /\ cfg \in {EffectiveConfig(c, FALSE, t) :
                c \in FreshConfigs, t \in ConfigTokens}
  /\ CallsAtRest
  /\ ExecAtRest
  /\ BuildAtRest

NextToken ==
  \/ \E c \in CallIds, op \in PlainOperations,
        supplied \in SUBSET ParamNames,
        path \in ReqPaths, token \in CallerTokens :
          Invoke(c, op, supplied, path, token, "")
  \/ \E c \in CallIds, er \in EndpointResults : VisitResolve(c, er)
  \/ \E c \in CallIds : VisitReject(c)

SpecToken == InitToken /\ [][NextToken]_vars

\* The endpoint functions that chain a callback to this.visitEndpoint(...)
ChainedOperations == {op \in Operations : op.after # ""}

\* The config object {cacheType: 'memory'}
MemoryConfig == [NoConfig EXCEPT !.made = TRUE, !.cacheType = "memory"]

\* The config object {}
EmptyConfig == [NoConfig EXCEPT !.made = TRUE]

\* Invocations of the endpoint functions that chain a callback, on a tree
\* constructed with a memory cache
InitChain ==
  /\ \E sp \in BOOLEAN : cfg = EffectiveConfig(MemoryConfig, sp, "")
  /\ BuiltFrom(MemoryConfig)
  /\ CallsAtRest
  /\ ExecAtRest

\* The responses of these requests: plain payloads, one payload more than
\* Payloads so that truthy responses of both shapes occur
ChainResults == {Plain(p) : p \in 0..(MaxPayload + 1)}

NextChain ==
  \/ \E c \in CallIds, op \in ChainedOperations, path \in ReqPaths,
        token \in CallerTokens, method \in Methods :
          Invoke(c, op, op.requiredParams, path, token, method)
  \/ \E c \in CallIds, er \in ChainResults : VisitResolve(c, er)
  \/ \E c \in CallIds : VisitReject(c)
  \/ \E c \in CallIds : UncacheList(c)
  \/ \E c \in CallIds : UncacheDelete(c)
  \/ \E c \in CallIds : UncacheResolve(c)

SpecChain == InitChain /\ [][NextChain]_vars

\* Invalidation passes of the uncache function next to requests that store
\* their responses, against a memory cache
InitPass ==
  /\ cfg = EffectiveConfig(MemoryConfig, FALSE, "")
  /\ CallsAtRest
  /\ ExecAtRest
  /\ BuildAtRest

NextPass ==
  \/ \E c \in CallIds, op \in PlainOperations, path \in ReqPaths :
        Invoke(c, op, op.requiredParams, path, "", "")
  \/ \E c \in CallIds, p \in Payloads : VisitResolve(c, Plain(p))
  \/ \E c \in CallIds, paths \in UncacheSets :
        UncacheStart(c, paths, MaxPayload)
  \/ \E c \in CallIds : UncacheList(c)
  \/ \E c \in CallIds : UncacheDelete(c)
  \/ \E c \in CallIds : UncacheResolve(c)

SpecPass == InitPass /\ [][NextPass]_vars

\* Invocations on a tree whose config brought neither a cache instance nor
\* a cacheType
InitOff ==
  /\ cfg = EffectiveConfig(EmptyConfig, FALSE, "")
  /\ CallsAtRest
  /\ ExecAtRest
  /\ BuildAtRest

\* The results of these requests: plain payloads and envelopes that name
\* the key 'a'
OffResults ==
  {Plain(p) : p \in Payloads} \cup {Envelope(p, {<<"a">>}) : p \in Payloads}

NextOff ==
  \/ \E c \in CallIds, op \in PlainOperations,
        supplied \in SUBSET ParamNames, path \in ReqPaths :
          Invoke(c, op, supplied, path, "", "")
  \/ \E c \in CallIds, er \in OffResults : VisitResolve(c, er)
  \/ \E c \in CallIds : VisitReject(c)
  \/ \E c \in CallIds, paths \in UncacheSets, response \in Payloads :
        UncacheStart(c, paths, response)

SpecOff == InitOff /\ [][NextOff]_vars

\* Runs of the request executor
InitExec ==
  /\ cfg = EffectiveConfig(NoConfig, FALSE, "")
  /\ CallsAtRest
  /\ ExecAtRest
  /\ BuildAtRest

NextExec ==
  \/ \E o \in {Unset, 1}, r \in {Unset, 0, 2}, i \in {Unset, 1} :
        ExecStart(o, r, i)
  \/ TransientFailure
  \/ FatalFailure
  \/ \E items \in PageChoices, more \in BOOLEAN : PageArrives(items, more)

SpecExec == InitExec /\ [][NextExec]_vars

\* Construction of category trees
InitBuild ==
  /\ cfg = EffectiveConfig(NoConfig, FALSE, "")
  /\ CallsAtRest
  /\ ExecAtRest
  /\ BuildAtRest

NextBuild ==
  \/ \E cid \in ConfigIds, config \in CallerConfigs : NewConfig(cid, config)
  \/ \E cid \in ConfigIds, cls \in {"API", "Other"} :
        Construct(cid, cls)

SpecBuild == InitBuild /\ [][NextBuild]_vars

(***************************************************************************)
(* GroupSet: the endpoint functions of api.course.groupset                 *)
(***************************************************************************)
CourseIds == {"1", "2"}
GroupSetIds == {"5"}

\* prefix.v1
PrefixV1 == <<"api", "v1">>

\* `${prefix.v1}/courses/${options.courseId}/group_categories`
GroupSetListPath(courseId) ==
  PrefixV1 \o <<"courses", courseId, "group_categories">>

\* `${prefix.v1}/group_categories/${options.groupSetId}`
GroupSetPath(groupSetId) == PrefixV1 \o <<"group_categories", groupSetId>>

\* `${prefix.v1}/group_categories/${options.groupSetId}/groups`
GroupsPath(groupSetId) == GroupSetPath(groupSetId) \o <<"groups">>

\* The paths GroupSet.delete hands to this.uncache
DeleteUncache(courseId, groupSetId) == {GroupSetListPath(courseId)}

CreateGroupUncache_ListOnly(courseId, groupSetId) ==
  {GroupSetListPath(courseId)}

\* The paths GroupSet.createGroup hands to this.uncache
CreateGroupUncache(courseId, groupSetId) ==
  {GroupSetListPath(courseId), GroupSetPath(groupSetId)}

\* GroupSet.list, GroupSet.delete and GroupSet.createGroup with the options
\* they are invoked with
GroupSetOperations ==
  { [name |-> "groupset.list", requiredParams |-> {"courseId"},
     method |-> "GET", after |-> "", uncache |-> {},
     path |-> GroupSetListPath(c),
     args |-> [courseId |-> c, groupSetId |-> ""]] : c \in CourseIds }
  \cup
  { [name |-> "groupset.delete",
     requiredParams |-> {"courseId", "groupSetId"},
     method |-> "DELETE", after |-> "uncache",
     uncache |-> DeleteUncache(c, g),
     path |-> GroupSetPath(g),
     args |-> [courseId |-> c, groupSetId |-> g]] :
       c \in CourseIds, g \in GroupSetIds }
  \cup
  { [name |-> "groupset.createGroup",
     requiredParams |-> {"courseId", "groupSetId"},
     method |-> "POST", after |-> "uncache",
     uncache |-> CreateGroupUncache(c, g),
     path |-> GroupsPath(g),
     args |-> [courseId |-> c, groupSetId |-> g]] :
       c \in CourseIds, g \in GroupSetIds }

\* The keys these operations and GroupSet.get, GroupSet.listGroups use
GroupSetKeys ==
  {GroupSetListPath(c) : c \in CourseIds}
    \cup {GroupSetPath(g) : g \in GroupSetIds}
    \cup {GroupsPath(g) : g \in GroupSetIds}

\* The caches that earlier GET requests to these paths have left
GroupSetCaches ==
  [GroupSetKeys -> {Absent, Entry(FALSE, MaxPayload, "GET")}]

\* Invocations of the group set operations on a tree constructed with a
\* memory cache, after earlier reads
InitGroup ==
  /\ cfg = EffectiveConfig(MemoryConfig, FALSE, "")
  /\ cache \in GroupSetCaches
  /\ calls = [c \in CallIds |-> IdleCall]
  /\ last = Completion(0, EmptyCache, EmptyCache)
  /\ ExecAtRest
  /\ BuildAtRest

NextGroup ==
  \/ \E c \in CallIds, op \in GroupSetOperations :
        Invoke(c, op, op.requiredParams, op.path, "", "")
  \/ \E c \in CallIds, p \in Payloads : VisitResolve(c, Plain(p))
  \/ \E c \in CallIds : VisitReject(c)
  \/ \E c \in CallIds : UncacheList(c)
  \/ \E c \in CallIds : UncacheDelete(c)
  \/ \E c \in CallIds : UncacheResolve(c)

SpecGroup == InitGroup /\ [][NextGroup]_vars

(***************************************************************************)
(* The transport and the server behind it: a request that was sent is      *)
(* carried out by the server, and its response arrives later               *)
(***************************************************************************)
\* The number of mutating requests the server has carried out
ServerVersion ==
  Cardinality({c \in CallIds : calls[c].served /\ calls[c].method # "GET"})

\* The server carries out the request of c; seen is the state of the
\* resource that the response will show
Serve(c) ==
  /\ calls[c].kind = "visit"
  /\ calls[c].pc = "waiting"
  /\ ~calls[c].served
  /\ calls' = [calls EXCEPT ![c] =
       [@ EXCEPT !.served = TRUE,
                 !.seen = IF calls[c].method = "GET"
                            THEN ServerVersion ELSE ServerVersion + 1]]
  /\ UNCHANGED <<cfg, cache, last, execVars, buildVars>>

\* The response arrives: config.visitEndpoint resolves, with the resource
\* alone or with an envelope that carries the invalidation set uncache
Respond(c, uncache) ==
  /\ calls[c].served
  /\ VisitResolve(c, IF uncache = {}
                       THEN Plain(Snapshot(calls[c].seen))
                       ELSE Envelope(Snapshot(calls[c].seen), uncache))

(***************************************************************************)
(* App: the metadata endpoint functions of api.course.app                  *)
(***************************************************************************)
AppIds == {"7"}

\* `${prefix.v1}/courses/${options.courseId}/external_tools`
AppListPath(courseId) ==
  PrefixV1 \o <<"courses", courseId, "external_tools">>

\* `${prefix.v1}/courses/${options.courseId}/external_tools/${app.id}`
AppPath(courseId, appId) == AppListPath(courseId) \o <<appId>>

\* App.getMetadata with the options it is invoked with: it calls
\* this.api.course.app.list and chains its callback to the result
MetadataReads ==
  { [name |-> "app.getMetadata", requiredParams |-> {}, method |-> "GET",
     after |-> "metadata", uncache |-> {},
     path |-> AppListPath(c),
     args |-> [courseId |-> c, groupSetId |-> ""]] : c \in CourseIds }

\* Promise.all over the one promise, or undefined, that this.visitEndpoint
\* returned for the app: resolves in both cases
PromiseAll(ret) == Resolved(IF ret.k = "resolved" THEN ret.v ELSE 0)

\* The path App.updateMetadata sends the update of an app to
UpdateTarget(courseId, appId) == AppPath(courseId, appId)

\* App.updateMetadata is invoked with new metadata: it calls
\* this.api.course.app.list and chains its callback to the result
UpdateMetadata(c, courseId) ==
  /\ calls[c].kind = "idle"
  /\ c = NextCall
  /\ LET path == AppListPath(courseId)
         cachedValue == CacheGet(cache, path)
         base == [IdleCall EXCEPT
                    !.kind = "visit", !.op = "app.updateMetadata",
                    !.args = [courseId |-> courseId, groupSetId |-> ""],
                    !.settled = Settled, !.open = InFlight,
                    !.path = path, !.method = "GET", !.after = "update",
                    !.want = ServerVersion + 1]
     IN  IF cfg.cache /\ Truthy(cachedValue)
           THEN \* the list comes from the cache, the callback will run
                calls' = [calls EXCEPT ![c] =
                  [base EXCEPT !.pc = "apps", !.hitBy = cachedValue.by,
                               !.resp = cachedValue.v]]
           ELSE \* the list is requested, app.list returns undefined and
                \* App.updateMetadata throws a TypeError at .then
                calls' = [calls EXCEPT ![c] =
                  [base EXCEPT !.pc = "waiting", !.nsent = 1,
                               !.sentToken =
                                 AddAccessToken("", cfg.accessToken),
                               !.pre = cache, !.ret = Undefined,
                               !.raised = "TypeError",
                               !.out = Deliver(Rejected("TypeError"))]]
  /\ UNCHANGED <<cfg, cache, last, execVars, buildVars>>

\* The callback of App.updateMetadata: this.visitEndpoint with method PUT
\* for the app that has the metadataId, and Promise.all over the result
UpdatePut(c, appId) ==
  /\ calls[c].pc = "apps"
  /\ LET path == UpdateTarget(calls[c].args.courseId, appId)
         cachedValue == CacheGet(cache, path)
         sent == [calls[c] EXCEPT !.path = path, !.method = "PUT",
                                  !.hitBy = ""]
     IN  IF cfg.cache /\ Truthy(cachedValue)
           THEN \* return Promise.resolve(cachedValue): nothing is sent
                /\ calls' = [calls EXCEPT ![c] =
                     [sent EXCEPT
                        !.pc = "done", !.hitBy = cachedValue.by,
                        !.ret = Resolved(cachedValue.v),
                        !.out = Deliver(PromiseAll(Resolved(cachedValue.v)))]]
                /\ last' = Completion(c, cache, cache)
           ELSE \* the request is sent and undefined is returned
                /\ calls' = [calls EXCEPT ![c] =
                     [sent EXCEPT
                        !.pc = "waiting", !.nsent = 1,
                        !.sentToken = AddAccessToken("", cfg.accessToken),
                        !.pre = cache, !.ret = Undefined,
                        !.out = Deliver(PromiseAll(Undefined))]]
                /\ last' = last
  /\ UNCHANGED <<cfg, cache, execVars, buildVars>>

\* The keys of the app list and of the app
AppKeys ==
  {AppListPath(c) : c \in CourseIds}
    \cup {AppPath(c, a) : c \in CourseIds, a \in AppIds}

\* The caches that earlier calls of app.list have left: the list of a
\* course as it was before any update, or nothing
AppCaches ==
  { [k \in AppKeys |-> IF k \in listed
                         THEN Entry(FALSE, Snapshot(0), "GET") ELSE Absent] :
      listed \in SUBSET {AppListPath(c) : c \in CourseIds} }

\* Reads and updates of app metadata on a tree constructed with a memory
\* cache
InitMeta ==
  /\ cfg = EffectiveConfig(MemoryConfig, FALSE, "")
  /\ cache \in AppCaches
  /\ calls = [c \in CallIds |-> IdleCall]
  /\ last = Completion(0, EmptyCache, EmptyCache)
  /\ ExecAtRest
  /\ BuildAtRest

NextMeta ==
  \/ \E c \in CallIds, op \in MetadataReads :
        Invoke(c, op, op.requiredParams, op.path, "", "")
  \/ \E c \in CallIds, courseId \in CourseIds : UpdateMetadata(c, courseId)
  \/ \E c \in CallIds, appId \in AppIds : UpdatePut(c, appId)
  \/ \E c \in CallIds : Serve(c)
  \/ \E c \in CallIds : Respond(c, {})
  \/ \E c \in CallIds : VisitReject(c)

SpecMeta == InitMeta /\ [][NextMeta]_vars

(***************************************************************************)
(* Reads and mutating requests in flight together, on a tree constructed   *)
(* with a memory cache; the transport may answer a mutating request with   *)
(* an envelope that carries an invalidation set                            *)
(***************************************************************************)
InitRace ==
  /\ cfg = EffectiveConfig(MemoryConfig, FALSE, "")
  /\ CallsAtRest
  /\ ExecAtRest
  /\ BuildAtRest

NextRace ==
  \/ \E c \in CallIds, op \in PlainOperations, path \in ReqPaths :
        Invoke(c, op, op.requiredParams, path, "", "")
  \/ \E c \in CallIds : Serve(c)
  \/ \E c \in CallIds, uncache \in {{}} \cup EnvelopeSets :
        /\ calls[c].method = "GET" => uncache = {}
        /\ Respond(c, uncache)
  \/ \E c \in CallIds : VisitReject(c)

SpecRace == InitRace /\ [][NextRace]_vars

(***************************************************************************)
(* Vocabulary of the properties                                            *)
(***************************************************************************)
\* A request that passed the binder and went through wrapVisitEndpoint
IsVisit(c) == calls[c].kind = "visit" /\ calls[c].omitted = {}

IsGet(c) == IsVisit(c) /\ calls[c].method = "GET"

\* c had completed before d was issued (calls are numbered as issued)
Before(c, d) == c < d /\ c \notin calls[d].open

\* d was issued while c was still in flight
Concurrent(c, d) == c < d /\ c \in calls[d].open

\* A call that changes server state or hands over an invalidation set
Mutating(m) ==
  \/ IsVisit(m) /\ (calls[m].method # "GET" \/ calls[m].env)
  \/ calls[m].kind = "uncache"

\* A mutating call that completed successfully and carried an invalidation
\* set: a non-GET request answered with an envelope, or a call of uncache
Invalidated(m) ==
  /\ calls[m].pc = "done"
  /\ \/ IsVisit(m) /\ calls[m].method # "GET" /\ calls[m].env
     \/ calls[m].kind = "uncache"

\* No other call was in flight at any time while m was
Alone(m) ==
  /\ calls[m].open = {}
  /\ \A d \in Started : m \notin calls[d].open

\* The literal prefix P of a wildcard entry P*
LiteralPrefix(pattern) == SubSeq(pattern, 1, Len(pattern) - 1)

(***************************************************************************)
(* C1: an invocation that omits a required field fails with                *)
(* MissingParameter and makes no transport call (and touches no cache      *)
(* entry on the way).                                                      *)
(***************************************************************************)
C1_MissingParameter ==
  \A c \in Started :
    calls[c].omitted # {} =>
      /\ calls[c].pc = "failed"
      /\ calls[c].ret = Rejected("MissingParameter")
      /\ calls[c].nsent = 0

C1_Witness ==
  \E c \in Started :
    /\ calls[c].omitted = {"rubricId"}
    /\ calls[c].ret = Rejected("MissingParameter")

(***************************************************************************)
(* C2 (as claimed): with caching enabled, a GET that went to the transport *)
(* and succeeded, followed by the same GET with no mutating call in        *)
(* between, costs no second transport call, and both invocations return    *)
(* the same value.                                                         *)
(***************************************************************************)
NoMutationBetween(c1, c2) ==
  \A m \in Started \ {c1, c2} :
    Mutating(m) => Before(m, c1) \/ Before(c2, m)

C2_Claimed ==
  cfg.cache =>
    \A c1 \in Started, c2 \in Started :
      ( /\ IsGet(c1) /\ IsGet(c2)
        /\ calls[c1].path = calls[c2].path
        /\ calls[c1].pc = "done" /\ calls[c2].pc = "done"
        /\ calls[c1].nsent = 1
        /\ Before(c1, c2)
        /\ NoMutationBetween(c1, c2) )
      => /\ calls[c1].nsent + calls[c2].nsent = 1
         /\ calls[c1].ret = calls[c2].ret

(***************************************************************************)
(* C3 (as claimed): when a mutating call that ran on its own completes     *)
(* with an invalidation set holding a wildcard entry P*, every key that    *)
(* was cached before the call and starts with P is absent from the cache.  *)
(***************************************************************************)
C3_Claimed ==
  (cfg.cache /\ last.c \in Started /\ Invalidated(last.c) /\ Alone(last.c)) =>
    \A p \in calls[last.c].paths : \A k \in ReqPaths :
      (EndsWithStar(p) /\ last.pre[k].has /\ StartsWith(k, LiteralPrefix(p)))
        => ~last.post[k].has

(***************************************************************************)
(* C4 (as claimed): when a mutating call that ran on its own completes,    *)
(* every cached key (other than the key of the request itself) that its    *)
(* invalidation set neither names literally nor covers by the prefix of a  *)
(* wildcard entry is still cached with the same value.                     *)
(***************************************************************************)
Covered(k, paths) ==
  \/ k \in paths
  \/ \E p \in paths : EndsWithStar(p) /\ StartsWith(k, LiteralPrefix(p))

C4_Claimed ==
  (cfg.cache /\ last.c \in Started /\ Invalidated(last.c) /\ Alone(last.c)) =>
    \A k \in ReqPaths :
      ( /\ last.pre[k].has
        /\ k # calls[last.c].path
        /\ ~Covered(k, calls[last.c].paths) )
        => last.post[k] = last.pre[k]

(***************************************************************************)
(* C5 (as claimed): two GETs of one key, the second issued while the first *)
(* is in flight, against a cache that stores promises, cause one transport *)
(* call, and both callers receive the same resolved value.                 *)
(***************************************************************************)
C5_Claimed ==
  (cfg.cache /\ cfg.storePromises) =>
    \A c1 \in Started, c2 \in Started :
      ( /\ IsGet(c1) /\ IsGet(c2)
        /\ calls[c1].path = calls[c2].path
        /\ Concurrent(c1, c2)
        /\ calls[c1].pc = "done" /\ calls[c2].pc = "done" )
      => /\ calls[c1].nsent + calls[c2].nsent = 1
         /\ calls[c1].ret.k = "resolved"
         /\ calls[c1].ret = calls[c2].ret

(***************************************************************************)
(* C6: with numRetries configured to N, the executor does not give up      *)
(* before the transport has failed transiently more than N times, and a    *)
(* single-page request that succeeds after N transient failures has made   *)
(* exactly N+1 transport invocations, every one with the same parameters.  *)
(***************************************************************************)
\* numRetries as configured: the per-call option, else config.numRetries,
\* else the default
ConfiguredRetries ==
  IF exec.optRetries # Unset THEN exec.optRetries
  ELSE IF exec.cfgRetries # Unset THEN exec.cfgRetries
  ELSE DefaultNumRetries

C6_RetrySuccess ==
  /\ (exec.status = "failed" /\ ~exec.fatal) => exec.fails > ConfiguredRetries
  /\ ( /\ exec.status = "done"
       /\ Len(exec.served) = 1
       /\ exec.fails = ConfiguredRetries )
     => exec.sent = ConfiguredRetries + 1 /\ exec.same

C6_Witness ==
  /\ exec.status = "done"
  /\ ConfiguredRetries = 2
  /\ exec.fails = 2
  /\ exec.sent = 3
  /\ Len(exec.served) = 1

(***************************************************************************)
(* C7: with numRetries configured to N, no request is sent to the          *)
(* transport more than N+1 times; after N+1 consecutive transient failures *)
(* the invocation has failed with RequestFailed after exactly N+1          *)
(* transport invocations (one attempt when N = 0).                         *)
(***************************************************************************)
C7_RetryExhaustion ==
  /\ exec.sentPage <= ConfiguredRetries + 1
  /\ exec.fails = ConfiguredRetries + 1 =>
       /\ exec.status = "failed"
       /\ exec.err = "RequestFailed"
       /\ exec.sentPage = ConfiguredRetries + 1
  /\ (exec.status = "failed" /\ ~exec.fatal /\ exec.served = <<>>) =>
       exec.sent = ConfiguredRetries + 1

C7_Witness ==
  /\ exec.status = "failed"
  /\ ~exec.fatal
  /\ ConfiguredRetries = 0
  /\ exec.sent = 1
  /\ exec.err = "RequestFailed"

(***************************************************************************)
(* C8: when the transport delivers k pages without failing, the invocation *)
(* has made exactly k transport calls and returns the concatenation of the *)
(* pages' elements in the order the pages arrived.                         *)
(***************************************************************************)
RECURSIVE Flatten(_)
Flatten(pages) ==
  IF pages = <<>> THEN <<>> ELSE Head(pages) \o Flatten(Tail(pages))

C8_Pagination ==
  (exec.status = "done" /\ ~exec.anyFail) =>
    /\ exec.sent = Len(exec.served)
    /\ exec.result = Flatten(exec.served)

C8_Witness ==
  /\ exec.status = "done"
  /\ ~exec.anyFail
  /\ exec.served = << <<1>>, <<2>>, <<1>> >>
  /\ exec.result = <<1, 2, 1>>
  /\ exec.sent = 3

(***************************************************************************)
(* C9 (as claimed): a constructor call fails with invalid_cache whenever   *)
(* the config's cacheType names a type other than 'memory' or 'session',   *)
(* or names 'session' without req.                                         *)
(***************************************************************************)
BadCacheType(b) ==
  \/ b.cacheType \notin {"", "memory", "session"}
  \/ b.cacheType = "session" /\ ~b.req

BuildIds == 1..Len(builds)

C9_Claimed ==
  \A b \in BuildIds :
    BadCacheType(builds[b]) =>
      builds[b].thrown /\ builds[b].code = InvalidCache

(***************************************************************************)
(* C9 (amended): a constructor call whose config holds no cache instance   *)
(* fails with invalid_cache whenever cacheType names a type other than     *)
(* 'memory' or 'session', or names 'session' without req.                  *)
(***************************************************************************)
C9_Amended ==
  \A b \in BuildIds :
    (~builds[b].hadCache /\ BadCacheType(builds[b])) =>
      builds[b].thrown /\ builds[b].code = InvalidCache

C9_Witness ==
  \E b \in BuildIds :
    /\ ~builds[b].hadCache
    /\ builds[b].cacheType = "session"
    /\ ~builds[b].req
    /\ builds[b].thrown

(***************************************************************************)
(* C10: in every tree that was constructed, every category node and every  *)
(* endpoint is bound to the cache, the uncache function and the root       *)
(* reference that the root of the tree is bound to.                        *)
(***************************************************************************)
NodeIds == 1..Len(nodes)

C10_SharedConfig ==
  \A b \in BuildIds : \A n \in NodeIds :
    (~builds[b].thrown /\ nodes[n].tree = b) =>
      /\ nodes[n].cache = nodes[builds[b].root].cache
      /\ nodes[n].uncache = nodes[builds[b].root].uncache
      /\ nodes[n].api = nodes[builds[b].root].api

C10_Witness ==
  \E b \in BuildIds : \E n \in NodeIds :
    /\ ~builds[b].thrown
    /\ builds[b].cls = "API"
    /\ builds[b].cacheType = "memory"
    /\ ~builds[b].hadCache /\ ~builds[b].hadApi
    /\ nodes[n].tree = b /\ nodes[n].leaf /\ nodes[n].cls = "App"
    /\ nodes[n].cache = builds[b].root
    /\ nodes[n].api = builds[b].root

(***************************************************************************)
(* C11 (as claimed): for every root category constructed without the       *)
(* caller having supplied an api reference, the root reference held by the *)
(* root and by all its descendants is that root itself; this holds for     *)
(* each tree when several are constructed one after another, also from the *)
(* same config object.                                                     *)
(***************************************************************************)
C11_Claimed ==
  \A b \in BuildIds : \A n \in NodeIds :
    (~builds[b].suppliedApi /\ ~builds[b].thrown /\ nodes[n].tree = b) =>
      nodes[n].api = builds[b].root

(***************************************************************************)
(* C12 (as claimed): with caching enabled, a non-GET call is never         *)
(* answered from the cache (it always reaches the transport), and a GET    *)
(* call is never answered with a value that a non-GET call stored.         *)
(***************************************************************************)
\* The invocation was answered from the cache, without a transport call
AnsweredFromCache(c) ==
  IsVisit(c) /\ calls[c].pc = "done" /\ calls[c].nsent = 0

C12_Claimed ==
  cfg.cache =>
    \A c \in Started :
      /\ (IsVisit(c) /\ calls[c].method # "GET") => calls[c].nsent = 1
      /\ (AnsweredFromCache(c) /\ calls[c].method = "GET") =>
           calls[c].hitBy = "GET"

(***************************************************************************)
(* C13 (as claimed): a request that reaches the transport carries the      *)
(* caller's access_token parameter unchanged when the caller supplied one, *)
(* and the configured access token only when the caller supplied none.     *)
(***************************************************************************)
ReachedTransport(c) == IsVisit(c) /\ calls[c].nsent > 0

C13_Claimed ==
  \A c \in Started :
    ReachedTransport(c) =>
      calls[c].sentToken = IF calls[c].paramToken # ""
                             THEN calls[c].paramToken
                             ELSE cfg.accessToken

(***************************************************************************)
(* C14 (as claimed): no invocation hands the caller undefined or another   *)
(* substitute: a completed invocation that missed the cache has returned a *)
(* promise of the transport's unwrapped result, one that hit has returned  *)
(* a promise of the cached value, and a failed one a typed error.          *)
(***************************************************************************)
C14_Claimed ==
  \A c \in Started :
    IsVisit(c) =>
      /\ calls[c].ret.k # "undefined"
      /\ (calls[c].pc = "done" /\ calls[c].nsent = 1) =>
           calls[c].ret = Resolved(calls[c].resp)
      /\ calls[c].pc = "done" => calls[c].ret.k = "resolved"
      /\ calls[c].pc = "failed" => calls[c].ret.k = "rejected"

(***************************************************************************)
(* C15 (as claimed): when the endpoint's result is the envelope            *)
(* {response, uncache}, the value returned to the caller is the bare       *)
(* response, and so is the value the call left in the cache under its key. *)
(***************************************************************************)
C15_Claimed ==
  \A c \in Started :
    (IsVisit(c) /\ calls[c].pc = "done" /\ calls[c].env) =>
      /\ calls[c].ret = Resolved(calls[c].resp)
      /\ (cfg.cache /\ last.c = c /\ last.post[calls[c].path].has) =>
           last.post[calls[c].path].v = calls[c].resp

(***************************************************************************)
(* C16: with caching enabled, when a call of other.endpoint resolves, the  *)
(* cache holds no key that was cached before or by that call: a key it     *)
(* holds was stored by the request of another call that was in flight      *)
(* while this one was.                                                     *)
(***************************************************************************)
\* c and d were in flight at the same time
Overlap(c, d) == d \in calls[c].open \/ c \in calls[d].open

\* The request of d went to the transport and its response was stored
StoredBy(d, k) ==
  /\ IsVisit(d) /\ calls[d].path = k
  /\ calls[d].nsent = 1 /\ calls[d].pc = "done"

OtherResolved(c) ==
  /\ c \in Started
  /\ calls[c].op = "other.endpoint"
  /\ calls[c].out.k = "resolved"

PassDone(c) ==
  /\ cfg.cache
  /\ calls[c].kind = "uncache" \/ calls[c].after = "uncache"
  /\ \/ calls[c].pc = "deleted"
     \/ calls[c].pc = "done" /\ calls[c].out.k = "resolved"

C17_ListingTime ==
  \A c \in CallIds : \A k \in ReqPaths :
    (PassDone(c) /\ k \notin calls[c].lst /\ k \notin calls[c].paths)
      => k \notin calls[c].gone

C17_Witness ==
  \E c \in CallIds : \E k \in ReqPaths : \E p \in calls[c].paths :
    /\ PassDone(c)
    /\ EndsWithStar(p) /\ StartsWith(k, SplitStar0(p))
    /\ k \notin calls[c].lst
    /\ k \in calls[c].kept

(***************************************************************************)
(* C18: when the config supplies neither a cache instance nor a cacheType, *)
(* construction succeeds and caching is off: the cache stays empty, no     *)
(* request is answered from it (every request that passes the binder goes  *)
(* to the transport), and a call of the uncache function resolves to the   *)
(* response it was given without listing or deleting a key.                *)
(***************************************************************************)
C18_CachingOff ==
  (~cfg.hadCache /\ cfg.cacheType = "") =>
    /\ cfg.built /\ ~cfg.cache
    /\ cache = EmptyCache
    /\ \A c \in Started :
         /\ IsVisit(c) => calls[c].nsent = 1 /\ calls[c].hitBy = ""
         /\ calls[c].kind = "uncache" =>
              /\ calls[c].pc = "done"
              /\ calls[c].ret = Resolved(calls[c].resp)
              /\ calls[c].lst = {} /\ calls[c].gone = {}

C18_Witness ==
  /\ ~cfg.hadCache /\ cfg.cacheType = ""
  /\ \E c \in Started, d \in Started :
       /\ IsVisit(c) /\ calls[c].pc = "done" /\ calls[c].resp = 1
       /\ Before(c, d)
       /\ calls[d].kind = "uncache" /\ calls[d].paths = {<<"*">>}
       /\ calls[d].ret = Resolved(1)

(***************************************************************************)
(* C19: an error raised by the logic of an endpoint function (the          *)
(* malformed-response error of GraphQL.listSubmissions, or an error thrown *)
(* while the function runs) is what the caller of the operation receives:  *)
(* the same error, never a value and never another error.                  *)
(***************************************************************************)
C19_EndpointError ==
  \A c \in Started :
    calls[c].raised # "" => calls[c].out = Rejected(calls[c].raised)

C19_Witness ==
  \E c \in Started :
    /\ calls[c].op = "ql.listSubmissions"
    /\ calls[c].raised = InvalidSubmissionStructure
    /\ calls[c].out = Rejected(InvalidSubmissionStructure)

(***************************************************************************)
(* C20: after construction no step of an operation invocation changes the  *)
(* tree: the nodes and the endpoints bound to them, the config object with *)
(* its cache handle, uncache function, root reference and defaults all     *)
(* stay as construction left them; the contents of the cache may change.   *)
(***************************************************************************)
C20_TreeImmutable ==
  [][ /\ cfg' = cfg
      /\ nodes' = nodes
      /\ configs' = configs
      /\ builds' = builds ]_vars

C20_Witness ==
  /\ Len(builds) = 1 /\ ~builds[1].thrown
  /\ \E n \in NodeIds : nodes[n].leaf /\ nodes[n].cache = 1
  /\ cfg.cache
  /\ \E c \in Started, d \in Started :
       /\ StoredBy(c, calls[c].path) /\ calls[c].paramToken = "callerToken"
       /\ calls[d].pc = "done" /\ calls[d].gone = {calls[c].path}

(***************************************************************************)
(* C21 (as claimed): a successful result is written to the cache under the *)
(* request's key exactly when it carries no invalidation set: after a call *)
(* that ran on its own and whose result was an envelope, the cache holds   *)
(* under the request's key what it held before (nothing, when the set      *)
(* covers the key); after one whose result was a plain payload it holds    *)
(* that payload.                                                           *)
(***************************************************************************)
\* The request of c went to the transport and was answered
Answered(c) ==
  /\ c \in Started
  /\ IsVisit(c) /\ calls[c].nsent = 1 /\ calls[c].pc = "done"

C21_Claimed ==
  (cfg.cache /\ Answered(last.c) /\ Alone(last.c)) =>
    LET k == calls[last.c].path
    IN  IF calls[last.c].env
          THEN IF Covered(k, calls[last.c].paths)
                 THEN ~last.post[k].has
                 ELSE last.post[k] = last.pre[k]
          ELSE last.post[k].has /\ last.post[k].v = calls[last.c].resp

(***************************************************************************)
(* C22 (as claimed): the cache pre-check is a presence test: no request    *)
(* goes to the transport while the cache holds an entry for its key,       *)
(* whatever the value of the entry, and a request answered from the cache  *)
(* returns the entry.                                                      *)
(***************************************************************************)
C22_Claimed ==
  cfg.cache =>
    \A c \in Started :
      /\ (IsVisit(c) /\ calls[c].pc = "waiting") =>
           ~calls[c].pre[calls[c].path].has
      /\ AnsweredFromCache(c) => calls[c].ret.k = "resolved"

(***************************************************************************)
(* C23: a call of the uncache function of a caching category goes through  *)
(* the key listing, the deletion and the resolution in that order: it      *)
(* resolves only from the state in which deletePaths has been called, at   *)
(* the deletion none of the keys resolved from the invalidation set and    *)
(* the listing is left in the cache, and it resolves to exactly the        *)
(* response it was given.                                                  *)
(***************************************************************************)
\* c takes the step that brings it to pc
Reaches(c, pc) == calls[c].pc # pc /\ calls'[c].pc = pc

C23_UncacheOrder ==
  [][ \A c \in CallIds :
        (cfg.cache /\ calls'[c].kind = "uncache") =>
          /\ Reaches(c, "listed") => calls[c].pc = "listing"
          /\ Reaches(c, "deleted") =>
               /\ calls[c].pc = "listed"
               /\ \A k \in PathsToUncache(calls[c].paths, calls[c].lst) :
                    ~CacheGet(cache', k).has
          /\ Reaches(c, "done") =>
               /\ calls[c].pc = "deleted"
               /\ calls'[c].ret = Resolved(calls[c].resp)
               /\ calls'[c].resp = calls[c].resp ]_vars

C23_Witness ==
  \E c \in Started :
    /\ cfg.cache
    /\ calls[c].kind = "uncache" /\ calls[c].pc = "done"
    /\ calls[c].gone # {}
    /\ calls[c].resp = MaxPayload
    /\ calls[c].ret = Resolved(MaxPayload)

(***************************************************************************)
(* C24 (as claimed): for an invalidation set that consists of one wildcard *)
(* entry P*, the keys the pass deletes are exactly the cached keys of its  *)
(* listing that start with the whole text P in front of the terminating    *)
(* '*', also when P itself contains a '*'.                                 *)
(***************************************************************************)
\* The keys cached when the pass of c called deletePaths
CachedAtDeletion(c) == calls[c].gone \cup calls[c].kept

C24_Claimed ==
  \A c \in CallIds : \A p \in Patterns :
    (PassDone(c) /\ calls[c].paths = {p} /\ EndsWithStar(p)) =>
      calls[c].gone =
        {k \in calls[c].lst \cap CachedAtDeletion(c) :
           StartsWith(k, LiteralPrefix(p))}

(***************************************************************************)
(* C25: in every tree that was constructed, a category node has exactly    *)
(* one child per static member of its descriptor class, under the member's *)
(* name: for a member that is a category class a child category node of    *)
(* that class, bound to the same cache, uncache function and root          *)
(* reference as the node, and for every other member a bound endpoint that *)
(* carries the member's action label and requiredParams.                   *)
(***************************************************************************)
\* The nodes and endpoints the constructor of node n has made
Children(n) == {k \in NodeIds : nodes[k].parent = n}

\* Child k of node n is what the builder is to make of member m
BuiltAs(k, n, m) ==
  /\ nodes[k].name = m.name
  /\ nodes[k].tree = nodes[n].tree
  /\ IF m.category
       THEN /\ ~nodes[k].leaf
            /\ nodes[k].cls = m.cls
            /\ nodes[k].cache = nodes[n].cache
            /\ nodes[k].uncache = nodes[n].uncache
            /\ nodes[k].api = nodes[n].api
       ELSE /\ nodes[k].leaf
            /\ nodes[k].action = m.action
            /\ nodes[k].requiredParams = m.requiredParams

C25_TreeBuilder ==
  \A b \in BuildIds : \A n \in NodeIds :
    (~builds[b].thrown /\ nodes[n].tree = b /\ ~nodes[n].leaf) =>
      LET members == Members(nodes[n].cls)
      IN  /\ Cardinality(Children(n)) = Len(members)
          /\ \A i \in 1..Len(members) :
               Cardinality({k \in Children(n) :
                              BuiltAs(k, n, members[i])}) = 1

C25_Witness ==
  \E b \in BuildIds : \E n \in NodeIds : \E k \in NodeIds, l \in NodeIds :
    /\ ~builds[b].thrown /\ builds[b].cls = "API"
    /\ nodes[n].tree = b /\ nodes[n].cls = "Course" /\ ~nodes[n].leaf
    /\ k \in Children(n) /\ nodes[k].cls = "GroupSet" /\ ~nodes[k].leaf
    /\ l \in Children(k) /\ nodes[l].name = "createGroup"
    /\ nodes[l].requiredParams = {"courseId", "groupSetId"}
    /\ nodes[l].action = "create a new group in a group set"

(***************************************************************************)
(* C26: with caching enabled, when groupset.delete or groupset.createGroup *)
(* resolves, the cache holds no entry for the group-set list path of the   *)
(* course it was invoked with, and after createGroup none for the path of  *)
(* the group set either, that was cached before the call: an entry it      *)
(* holds under such a path was stored by the request of another call that  *)
(* was in flight while this one was.                                       *)
(***************************************************************************)
\* Key k is not cached when c completes, unless an overlapping call's
\* request stored it
GoneFor(c, k) ==
  last.post[k].has =>
    \E d \in Started \ {c} : Overlap(c, d) /\ StoredBy(d, k)

GroupSetResolved(c, name) ==
  /\ c \in Started
  /\ calls[c].op = name
  /\ calls[c].out.k = "resolved"

C27_Claimed ==
  cfg.cache =>
    \A u \in Started, g \in Started :
      ( /\ calls[u].op = "app.updateMetadata"
        /\ calls[u].out.k = "resolved"
        /\ calls[g].op = "app.getMetadata"
        /\ calls[g].out.k = "resolved"
        /\ calls[g].args.courseId = calls[u].args.courseId
        /\ u \in calls[g].settled
        /\ \A w \in Started \ {u} : calls[w].op # "app.updateMetadata" )
      => calls[g].out = Resolved(calls[u].want)

(***************************************************************************)
(* C28: the step at which the transport call of a request fails changes    *)
(* nothing in the cache, and when no other call was in flight while the    *)
(* request was, the cache is then exactly as it was when the request was   *)
(* invoked: no entry was added under its key and no key was deleted.       *)
(***************************************************************************)
C28_FailedRequest ==
  [][ \A c \in CallIds :
        (calls[c].kind = "visit" /\ calls[c].nsent = 1 /\ Reaches(c, "failed"))
          => /\ cache' = cache
             /\ Alone(c)' => cache' = calls[c].pre ]_vars

C28_Witness ==
  /\ cfg.cache
  /\ last.c \in Started
  /\ IsVisit(last.c) /\ calls[last.c].nsent = 1
  /\ calls[last.c].pc = "failed"
  /\ calls[last.c].inner = Rejected("RequestFailed")
  /\ Alone(last.c)
  /\ \E k \in DOMAIN cache : k # calls[last.c].path /\ last.pre[k].has
  /\ ~last.pre[calls[last.c].path].has
  /\ last.post = last.pre /\ cache = last.post

(***************************************************************************)
(* C29: when a GET of key K and a mutating call whose invalidation set     *)
(* names K were in flight together and both have been answered, the cache  *)
(* holds for K no value that the transport produced before the mutation    *)
(* took effect.                                                            *)
(***************************************************************************)
\* The answered mutating call m named k in its invalidation set
NamedBy(m, k) ==
  /\ Answered(m) /\ calls[m].method # "GET"
  /\ calls[m].env /\ k \in calls[m].paths

C29_Claimed ==
  cfg.cache =>
    \A g \in Started, m \in Started :
      LET k == calls[g].path
      IN  (/\ IsGet(g) /\ Answered(g)
           /\ NamedBy(m, k)
           /\ Overlap(g, m))
            => (CacheGet(cache, k).has
                  => CacheGet(cache, k).v >= Snapshot(calls[m].seen))

====
